---------------------------- MODULE Spec2Model ----------------------------
(***************************************************************************)
(* Columnas-bot (src/main.py): ingestion of "column" posts into the        *)
(* in-memory store all_items, immediate alerts, and windowed reports.      *)
(*                                                                         *)
(* Text representation.  Python strings are modelled as sequences of       *)
(* atoms (whitespace-delimited pieces); a post is a sequence of lines.     *)
(* An atom is one of                                                       *)
(*   - a severity icon: "ic_verde" (green circle), "ic_amarillo" (yellow   *)
(*     circle), "ic_rojo" (red circle), "ic_alerta" (warning sign followed *)
(*     by the variation selector U+FE0F), "ic_alerta_sin_vs" (the bare     *)
(*     warning sign U+26A0);                                               *)
(*   - the slash "/", the comma ",", the dash "-", the bullet "*";         *)
(*   - a URL (an element of URLS);                                         *)
(*   - a word.  An acute accent is written as an apostrophe after the      *)
(*     vowel: "JUA'REZ".                                                   *)
(* Whitespace between atoms is implicit, so collapsing whitespace is the   *)
(* identity on this representation; every other conversion (upper-casing,  *)
(* accent stripping, splitting, trimming) is computed.                     *)
(***************************************************************************)
EXTENDS Integers, Sequences, FiniteSets, TLC

VARIABLES all_items, alertas, en_vuelo, resumen, now, n_msgs, ultimo

vars == <<all_items, alertas, en_vuelo, resumen, now, n_msgs, ultimo>>

---------------------------------------------------------------------------
(* Generic sequence helpers *)

Elems(s) == {s[i] : i \in DOMAIN s}

RECURSIVE Aplanar(_)
Aplanar(ss) == IF ss = <<>> THEN <<>> ELSE Head(ss) \o Aplanar(Tail(ss))

EmpiezaCon(s, p) == Len(p) <= Len(s) /\ SubSeq(s, 1, Len(p)) = p

\* p occurs in s as a contiguous run (the model of Python's "p in s")
Contiene(s, p) ==
    \E i \in 0..(Len(s) - Len(p)) : SubSeq(s, i + 1, i + Len(p)) = p

---------------------------------------------------------------------------
(* Configuration *)

SOURCE_CHAT_ID == "chat_fuente"
ALERTS_CHAT_ID == "chat_alertas"
SUMMARY_CHAT_ID == "chat_resumen"

ICON_SET == <<"ic_verde", "ic_amarillo", "ic_rojo", "ic_alerta">>

URLS == {"https://a.mx/n1", "https://b.mx/n2", "https://c.mx/n3"}

\* The pieces of a URL around its slashes: "https:" "/" "/" host "/" path
partes_url(u) ==
    CASE u = "https://a.mx/n1" -> <<"https:", "/", "/", "a.mx", "/", "n1">>
      [] u = "https://b.mx/n2" -> <<"https:", "/", "/", "b.mx", "/", "n2">>
      [] u = "https://c.mx/n3" -> <<"https:", "/", "/", "c.mx", "/", "n3">>

\* URL_RE.findall on a string: the URL atoms, left to right
URL_RE_findall(s) == SelectSeq(s, LAMBDA a : a \in URLS)

\* The characters limpiar strips from both ends, when they stand alone
RELLENO == {"-", "*"}

RECURSIVE lstrip(_)
lstrip(s) == IF s # <<>> /\ Head(s) \in RELLENO THEN lstrip(Tail(s)) ELSE s

RECURSIVE rstrip(_)
rstrip(s) ==
    IF s # <<>> /\ s[Len(s)] \in RELLENO
    THEN rstrip(SubSeq(s, 1, Len(s) - 1))
    ELSE s

limpiar(s) == rstrip(lstrip(s))

\* str.upper on one atom
upper_atom(w) ==
    CASE w = "Columna" -> "COLUMNA"
      [] w = "Alcalde" -> "ALCALDE"
      [] w = "alcalde" -> "ALCALDE"
      [] w = "Bonilla" -> "BONILLA"
      [] w = "Marco" -> "MARCO"
      [] w = "Maru" -> "MARU"
      [] w = "Campos" -> "CAMPOS"
      [] w = "Cruz" -> "CRUZ"
      [] w = "Pe'rez" -> "PE'REZ"
      [] w = "Estatal" -> "ESTATAL"
      [] w = "Jua'rez" -> "JUA'REZ"
      [] w = "El" -> "EL"
      [] w = "Diario" -> "DIARIO"
      [] w = "Omnia" -> "OMNIA"
      [] w = "y" -> "Y"
      [] w = "https:" -> "HTTPS:"
      [] w = "a.mx" -> "A.MX"
      [] w = "b.mx" -> "B.MX"
      [] w = "c.mx" -> "C.MX"
      [] w = "n1" -> "N1"
      [] w = "n2" -> "N2"
      [] w = "n3" -> "N3"
      [] w = "reforma" -> "REFORMA"
      [] w = "cruce" -> "CRUCE"
      [] w = "fronterizo" -> "FRONTERIZO"
      [] w = "urgente" -> "URGENTE"
      [] w = "crisis" -> "CRISIS"
      [] w = "del" -> "DEL"
      [] w = "pan" -> "PAN"
      [] w = "hoy" -> "HOY"
      [] OTHER -> w

upper(s) == [i \in DOMAIN s |-> upper_atom(s[i])]

\* _sin_acentos on one atom: only upper-case accented letters are replaced
sin_acentos_atom(w) ==
    CASE w = "PE'REZ" -> "PEREZ"
      [] w = "CUE'LLAR" -> "CUELLAR"
      [] w = "JUA'REZ" -> "JUAREZ"
      [] w = "CE'SAR" -> "CESAR"
      [] w = "JA'UREGUI" -> "JAUREGUI"
      [] w = "MARI'A" -> "MARIA"
      [] OTHER -> w

_sin_acentos(s) == [i \in DOMAIN s |-> sin_acentos_atom(s[i])]

\* "x in texto" for a single atom x, over all the lines of a post
atomos(texto) == Elems(Aplanar(texto))

\* detectar_color with the alert icon looked for before the negative one
detectar_color_alerta_primero(texto) ==
    IF "ic_alerta" \in atomos(texto) \/ "ic_alerta_sin_vs" \in atomos(texto)
    THEN "ic_alerta"
    ELSE IF "ic_rojo" \in atomos(texto) THEN "ic_rojo"
    ELSE IF "ic_amarillo" \in atomos(texto) THEN "ic_amarillo"
    ELSE IF "ic_verde" \in atomos(texto) THEN "ic_verde"
    ELSE "ic_amarillo"

detectar_color(texto) ==
    IF "ic_rojo" \in atomos(texto) THEN "ic_rojo"
    ELSE IF "ic_alerta" \in atomos(texto) \/ "ic_alerta_sin_vs" \in atomos(texto)
         THEN "ic_alerta"
    ELSE IF "ic_verde" \in atomos(texto) THEN "ic_verde"
    ELSE IF "ic_amarillo" \in atomos(texto) THEN "ic_amarillo"
    ELSE "ic_amarillo"

normalizar_token(tok) == limpiar(upper(tok))

\* sha1(link).hexdigest(): a digest determined by the link, taken collision-free
hash_columna(link) == <<"sha1", link>>

\* str.strip().splitlines(): blank lines at both ends are dropped
RECURSIVE strip_lineas(_)
strip_lineas(t) ==
    IF t = <<>> THEN <<>>
    ELSE IF Head(t) = <<>> THEN strip_lineas(Tail(t))
    ELSE IF t[Len(t)] = <<>> THEN strip_lineas(SubSeq(t, 1, Len(t) - 1))
    ELSE t

extraer_header_y_cuerpo(texto) ==
    LET lineas == strip_lineas(texto) IN
    IF lineas = <<>> THEN [header |-> <<>>, cuerpo |-> <<>>]
    ELSE [header |-> limpiar(Head(lineas)),
          cuerpo |-> limpiar(Aplanar(Tail(lineas)))]

---------------------------------------------------------------------------
(* Actor canonicalisation *)

ROLES ==
    { <<"ALCALDE">>, <<"ALCALDESA">>, <<"PRESIDENTE", "MUNICIPAL">>,
      <<"PRESIDENTA", "MUNICIPAL">>, <<"GOBERNADOR">>, <<"GOBERNADORA">>,
      <<"DIPUTADO">>, <<"DIPUTADA">>, <<"SENADOR">>, <<"SENADORA">>,
      <<"FISCAL">>, <<"SECRETARIO">>, <<"SECRETARIA">>, <<"REGIDOR">>,
      <<"REGIDORA">> }

\* The first role r, longest first, with t.startswith(r + " ") is removed.  No
\* role followed by a space is a prefix of another role, so at most one role
\* matches and the order of the scan does not matter.
sin_rol(t) ==
    LET cand == {r \in ROLES : EmpiezaCon(t, r) /\ Len(t) > Len(r)}
    IN  IF cand = {} THEN t
        ELSE SubSeq(t, Len(CHOOSE x \in cand : TRUE) + 1, Len(t))

quitar_rol(s) == sin_rol(normalizar_token(s))

\* <<surface form, canonical name>>
ALIASES ==
    { <<<<"MARCO", "BONILLA">>, <<"MARCO", "BONILLA">>>>,
      <<<<"BONILLA">>, <<"MARCO", "BONILLA">>>>,
      <<<<"ALCALDE", "BONILLA">>, <<"MARCO", "BONILLA">>>>,
      <<<<"MARCO", "BONILLA", "MENDOZA">>, <<"MARCO", "BONILLA">>>>,
      <<<<"ALCALDE", "MARCO", "BONILLA">>, <<"MARCO", "BONILLA">>>>,
      <<<<"ALCALDE", "MARCO">>, <<"MARCO", "BONILLA">>>>,
      <<<<"ALCALDE", "DE", "CHIHUAHUA">>, <<"MARCO", "BONILLA">>>>,
      <<<<"CRUZ", "PEREZ", "CUELLAR">>, <<"CRUZ", "PE'REZ", "CUE'LLAR">>>>,
      <<<<"CRUZ", "PE'REZ", "CUE'LLAR">>, <<"CRUZ", "PE'REZ", "CUE'LLAR">>>>,
      <<<<"PEREZ", "CUELLAR">>, <<"CRUZ", "PE'REZ", "CUE'LLAR">>>>,
      <<<<"CRUZ", "PEREZ">>, <<"CRUZ", "PE'REZ", "CUE'LLAR">>>>,
      <<<<"CRUZ", "PE'REZ">>, <<"CRUZ", "PE'REZ", "CUE'LLAR">>>>,
      <<<<"MARU", "CAMPOS">>, <<"MARU", "CAMPOS">>>>,
      <<<<"MARIA", "EUGENIA", "CAMPOS">>, <<"MARU", "CAMPOS">>>>,
      <<<<"MARI'A", "EUGENIA", "CAMPOS">>, <<"MARU", "CAMPOS">>>>,
      <<<<"CESAR", "JAUREGUI", "MORENO">>, <<"CE'SAR", "JA'UREGUI", "MORENO">>>>,
      <<<<"CE'SAR", "JA'UREGUI", "MORENO">>, <<"CE'SAR", "JA'UREGUI", "MORENO">>>>,
      <<<<"CESAR", "JAUREGUI">>, <<"CE'SAR", "JA'UREGUI", "MORENO">>>>,
      <<<<"JAUREGUI">>, <<"CE'SAR", "JA'UREGUI", "MORENO">>>> }

ALIASES_NORM == { <<_sin_acentos(p[1]), p[2]>> : p \in ALIASES }

ACTORES_CANON_SET == { p[2] : p \in ALIASES }

\* lines 130-133: the alias of t, or t itself
resolver_alias(t) ==
    LET hit == {p \in ALIASES_NORM : p[1] = _sin_acentos(t)}
    IN  IF hit # {} THEN (CHOOSE p \in hit : TRUE)[2] ELSE t

canon_actor(s) ==
    IF s = <<>> THEN <<>> ELSE resolver_alias(normalizar_token(quitar_rol(s)))

\* re.split(r"[,/]| y | e | - ", chunk, flags=re.IGNORECASE): the pieces of s
\* from position i on, actual being the piece under construction.  A comma or
\* slash always splits.  "y", "e", "-" split only with a space on both sides:
\* not at either end of the chunk, and not right after another such separator,
\* whose match has consumed the space between them (pegado).
RECURSIVE re_split(_, _, _, _)
re_split(s, i, actual, pegado) ==
    IF i > Len(s) THEN <<actual>>
    ELSE IF s[i] \in {",", "/"}
         THEN <<actual>> \o re_split(s, i + 1, <<>>, FALSE)
    ELSE IF s[i] \in {"y", "Y", "e", "E", "-"} /\ 1 < i /\ i < Len(s) /\ ~pegado
         THEN <<actual>> \o re_split(s, i + 1, <<>>, TRUE)
    ELSE re_split(s, i + 1, Append(actual, s[i]), FALSE)

partir_actores_chunk(chunk) ==
    LET tmp == re_split(chunk, 1, <<>>, FALSE)
        lim == [i \in DOMAIN tmp |-> limpiar(tmp[i])]
    IN  SelectSeq(lim, LAMBDA a : a # <<>>)

ALCANCE_CATALOG ==
    { <<"ESTATAL">>, <<"LOCAL">>, <<"NACIONAL">>, <<"JUAREZ">>, <<"JUA'REZ">>,
      <<"CHIHUAHUA">>, <<"MUNICIPAL">>, <<"ESTADO">>, <<"CD", "JUAREZ">>,
      <<"CD.", "JUAREZ">>, <<"CD.", "JUA'REZ">>, <<"ZONA", "CENTRO">>,
      <<"REGIONAL">> }

\* str.split("/"): a URL atom contributes the slashes it contains
RECURSIVE expandir(_)
expandir(s) ==
    IF s = <<>> THEN <<>>
    ELSE (IF Head(s) \in URLS THEN partes_url(Head(s)) ELSE <<Head(s)>>)
         \o expandir(Tail(s))

RECURSIVE split_slash(_, _)
split_slash(s, actual) ==
    IF s = <<>> THEN <<actual>>
    ELSE IF Head(s) = "/" THEN <<actual>> \o split_slash(Tail(s), <<>>)
    ELSE split_slash(Tail(s), Append(actual, Head(s)))

\* the "for ch in core: for a in partir_actores_chunk(ch)" loop of parse_header
\* lines 166-167
agregar_actor(actores, ca) ==
    IF ca # <<>> /\ ca \notin Elems(actores) THEN Append(actores, ca) ELSE actores

RECURSIVE juntar_actores(_, _)
juntar_actores(piezas, actores) ==
    IF piezas = <<>> THEN actores
    ELSE juntar_actores(Tail(piezas),
                        agregar_actor(actores, canon_actor(Head(piezas))))

SIN_ACTORES == <<"OTROS", "DE", "INTERES">>

\* the header's "/"-delimited tokens: line 150
tokens_header(header) ==
    LET clean == SelectSeq(header, LAMBDA a : a \notin Elems(ICON_SET))
        partes == split_slash(expandir(clean), <<>>)
        lim == [i \in DOMAIN partes |-> limpiar(partes[i])]
    IN  SelectSeq(lim, LAMBDA p : p # <<>>)

\* tokens[1:-1]: the tokens strictly between the first and the last
\* core_header as tokens[:-1], the first token kept
core_header_con_primero(tokens) == SubSeq(tokens, 1, Len(tokens) - 1)

core_header(tokens) == SubSeq(tokens, 2, Len(tokens) - 1)

\* lines 162-172: the actors of the chunks of core, the sentinel when there
\* are none, returned with the scope and the outlet
resultado_header(actores, alcance, medio) ==
    [actores |-> IF actores = <<>> THEN <<SIN_ACTORES>> ELSE actores,
     alcance |-> alcance,
     medio |-> medio]

actores_de(core) ==
    juntar_actores(Aplanar([i \in DOMAIN core |-> partir_actores_chunk(core[i])]),
                   <<>>)

\* lines 156-160: the last token of core is the scope when the catalog has it
hay_alcance(core) ==
    core # <<>> /\ normalizar_token(core[Len(core)]) \in ALCANCE_CATALOG

header_desde_core(core, medio) ==
    IF hay_alcance(core)
    THEN resultado_header(actores_de(SubSeq(core, 1, Len(core) - 1)),
                          normalizar_token(core[Len(core)]), medio)
    ELSE resultado_header(actores_de(core), <<>>, medio)

header_desde_tokens(tokens) ==
    IF Len(tokens) < 2
    THEN [actores |-> <<>>, alcance |-> <<>>, medio |-> <<>>]
    ELSE header_desde_core(core_header(tokens),
                           normalizar_token(tokens[Len(tokens)]))

parse_header(header) == header_desde_tokens(tokens_header(header))

SIN_MEDIO == <<"SIN", "MEDIO">>

\* the link of a post: the last URL of the text, "" when there is none
link_de(texto) ==
    LET urls == URL_RE_findall(Aplanar(texto))
    IN  IF urls # <<>> THEN urls[Len(urls)] ELSE ""

\* parse_message(texto), ahora being the value of ahora_tz(): a sequence of
\* zero or one entries
\* lines 187-196: the entry
entrada(ph, cuerpo, link, color, ahora) ==
    [col_id |-> hash_columna(link),
     fecha |-> ahora,
     color |-> color,
     actors |-> ph.actores,
     alcance |-> ph.alcance,
     medio |-> IF ph.medio # <<>> THEN ph.medio ELSE SIN_MEDIO,
     cuerpo |-> cuerpo,
     link |-> link]

\* entradas_de without the return of line 184
entradas_de_sin_link(hc, link, texto, ahora) ==
    IF hc.header = <<>> THEN <<>>
    ELSE << entrada(parse_header(hc.header), hc.cuerpo, link,
                    detectar_color(texto), ahora) >>

\* lines 178-186, hc being (header, cuerpo) and link the last URL
entradas_de(hc, link, texto, ahora) ==
    IF hc.header = <<>> THEN <<>>
    ELSE IF link = "" THEN <<>>
    ELSE << entrada(parse_header(hc.header), hc.cuerpo, link,
                    detectar_color(texto), ahora) >>

parse_message(texto, ahora) ==
    IF texto = <<>> THEN <<>>
    ELSE entradas_de(extraer_header_y_cuerpo(texto), link_de(texto), texto, ahora)

---------------------------------------------------------------------------
(* Store queries, alerts, tally *)

\* dentro_rango with the end of the range left out
dentro_rango_estricto(dt, start, end) == (dt >= start) /\ (dt < end)

dentro_rango(dt, start, end) == (dt >= start) /\ (dt <= end)

filtrar_por_rango(items, start, end) ==
    SelectSeq(items, LAMBDA it : dentro_rango(it.fecha, start, end))

\* es_alertable for the negative severity alone
es_alertable_solo_rojo(it) == it.color = "ic_rojo" /\ ALERTS_CHAT_ID # ""

\* line 479: the severities that raise an alert (ALERTS_CHAT_ID is set, or
\* the process would not have started: lines 27-34)
es_alertable(it) == it.color \in {"ic_rojo", "ic_alerta"} /\ ALERTS_CHAT_ID # ""

\* The payload of armar_alerta, field by field (the excerpt of the body is
\* left out); col_id identifies the entry the alert is about.
armar_alerta(it) ==
    [col_id |-> it.col_id, color |-> it.color, actors |-> it.actors,
     medio |-> it.medio, alcance |-> it.alcance, link |-> it.link]

\* cuenta_color over the items after the first
cuenta_color_sin_primero(items, c) ==
    Len(SelectSeq(Tail(items), LAMBDA x : x.color = c))

cuenta_color(items, c) == Len(SelectSeq(items, LAMBDA x : x.color = c))

contar_semaforo(items) ==
    [v |-> cuenta_color(items, "ic_verde"),
     a |-> cuenta_color(items, "ic_amarillo"),
     r |-> cuenta_color(items, "ic_rojo"),
     w |-> cuenta_color(items, "ic_alerta")]

RECURSIVE medios_desde(_, _)
medios_desde(items, out) ==
    IF items = <<>> THEN out
    ELSE LET m == Head(items).medio IN
         medios_desde(Tail(items),
             IF m = <<>> THEN out
             ELSE IF m = SIN_MEDIO /\ out # <<>> THEN out
             ELSE IF m \notin Elems(out) THEN Append(out, m)
             ELSE out)

medios_con_publicacion(items) == medios_desde(items, <<>>)

---------------------------------------------------------------------------
(* Topics: rules first, n-gram frequency as fallback *)

STOP_ES ==
    { "LA", "EL", "LOS", "LAS", "DE", "DEL", "AL", "A", "Y", "O", "U", "EN",
      "POR", "PARA", "CON", "SE", "QUE", "SU", "SUS", "UN", "UNA", "UNOS",
      "UNAS", "LO", "LES", "YA", "NO", "SI", "SI'", "MAS", "MA'S", "COMO", "ES",
      "SON", "SER", "FUE", "HAN", "HAY", "ESTE", "ESTA", "ESTOS", "ESTAS",
      "ESE", "ESA", "AQUEL", "AQUELLA", "ANTE", "BAJO", "CABE", "HACIA",
      "HASTA", "TRAS", "ENTRE", "SOBRE", "MUY", "TAMBIE'N", "TAMBIEN", "PERO",
      "NI", "SINO", "LE", "DEBE", "DEBEN", "DEBEMOS",
      "HTTPS", "HTTP", "WWW", "COM", "MX", "PHP", "HTML", "HTM", "AMP",
      "ENTRELI'NEAS", "ENTRELINEAS", "OMNIA", "PARADOJA", "HERALDO", "VOZ",
      "RED", "NOTICIAS", "OEM", "ELHERALDODECHIHUAHUA", "ELHERALDO",
      "ANALISIS", "ANA'LISIS", "RAFAGAS", "RA'FAGAS", "VIDEO", "FOTO",
      "GALERIA", "GALERI'A", "EDITORIAL", "COLUMNA", "OPINION", "OPINIO'N",
      "OTROS", "INTERES", "INTERE'S", "SIN", "MEDIO", "CHIHUAHUENSES",
      "CHIHUAHUA" }

ROLES_BAN == { _sin_acentos(r) : r \in ROLES }

\* re.sub(r"[^A-Z...0-9 ]", " ", ...).split() on one upper-case atom: icons and
\* punctuation vanish, a dot or a colon cuts the atom
tokenizar_atom(w) ==
    CASE w \in {"ic_verde", "ic_amarillo", "ic_rojo", "ic_alerta",
                "ic_alerta_sin_vs", ",", "-", "*", "/"} -> <<>>
      [] w = "HTTPS:" -> <<"HTTPS">>
      [] w = "A.MX" -> <<"A", "MX">>
      [] w = "B.MX" -> <<"B", "MX">>
      [] w = "C.MX" -> <<"C", "MX">>
      [] OTHER -> <<w>>

\* len(w): the number of characters of an upper-case word
largo_atom(w) ==
    CASE w \in {"A", "B", "C", "Y", "E"} -> 1
      [] w \in {"EL", "DE", "MX", "N1", "N2", "N3", "CD"} -> 2
      [] w \in {"DEL", "PAN", "HOY", "SIN"} -> 3
      [] w \in {"MARU", "CRUZ"} -> 4
      [] w \in {"MARCO", "PE'REZ", "OMNIA", "HTTPS", "CRUCE", "OTROS", "MEDIO"} -> 5
      [] w \in {"CAMPOS", "JUA'REZ", "DIARIO", "CRISIS"} -> 6
      [] w \in {"COLUMNA", "ALCALDE", "BONILLA", "CUE'LLAR", "ESTATAL",
                "REFORMA", "URGENTE", "INTERES"} -> 7
      [] w = "FRONTERIZO" -> 10

\* len of a phrase: its words and the spaces between them
RECURSIVE largo(_)
largo(g) ==
    IF g = <<>> THEN 0
    ELSE largo_atom(Head(g)) + (IF Len(g) > 1 THEN 1 ELSE 0) + largo(Tail(g))

_tokenizar(texto) ==
    LET t == Aplanar([i \in DOMAIN texto |-> tokenizar_atom(upper_atom(texto[i]))])
        w == SelectSeq(t, LAMBDA x : largo_atom(x) >= 3)
    IN  SelectSeq(w, LAMBDA x : sin_acentos_atom(x) \notin STOP_ES
                                /\ <<sin_acentos_atom(x)>> \notin ROLES_BAN)

\* _ngrams over range(len(words) - n): the last n-gram is lost
_ngrams_corto(words, n) ==
    IF Len(words) < n THEN <<>>
    ELSE [i \in 1..(Len(words) - n) |-> SubSeq(words, i, i + n - 1)]

_ngrams(words, n) ==
    IF Len(words) < n THEN <<>>
    ELSE [i \in 1..(Len(words) - n + 1) |-> SubSeq(words, i, i + n - 1)]

_up(s) == _sin_acentos(upper(s))

KW_LUGARES_CDMX ==
    { <<"CDMX">>, <<"CIUDAD", "DE", "MEXICO">>, <<"CIUDAD", "DE", "ME'XICO">>,
      <<"MEXICO">>, <<"CD.", "MX">>, <<"CDMX,">> }
KW_ACCION_VIAJE ==
    { <<"VIAJE">>, <<"GIRA">>, <<"REUNION">>, <<"REUNIO'N">>, <<"ENCUENTRO">>,
      <<"AGENDA">>, <<"VISITA">> }
KW_CONFLICTO ==
    { <<"CONFLICTO">>, <<"RUPTURA">>, <<"DIVISION">>, <<"DIVISIO'N">>,
      <<"DISPUTA">>, <<"PUGNA">>, <<"GRILLA">>, <<"PLEITO">>, <<"TENSION">>,
      <<"TENSIO'N">>, <<"CRISIS">> }
KW_PAN ==
    { <<"PAN">>, <<"ACCION", "NACIONAL">>, <<"ACCIO'N", "NACIONAL">>,
      <<"ALBIAZUL">> }
KW_GABINETE ==
    { <<"GABINETE">>, <<"SECRETARIO">>, <<"SECRETARIA">>, <<"TITULAR">>,
      <<"DEPENDENCIA">> }
KW_MOVIMIENTOS ==
    { <<"CAMBIO">>, <<"CAMBIOS">>, <<"NOMBRAMIENTO">>, <<"NOMBRA">>,
      <<"RENUNCIA">>, <<"RENUNCIO'">>, <<"RELEVO">>, <<"SUSTITUCION">>,
      <<"SUSTITUCIO'N">>, <<"DESIGNACION">>, <<"DESIGNACIO'N">> }
KW_ESTADO ==
    { <<"GOBIERNO", "DEL", "ESTADO">>, <<"ESTADO">>, <<"ESTATAL">>,
      <<"PALACIO", "DE", "GOBIERNO">>, <<"MARU", "CAMPOS">> }

TOPIC_RULES ==
    << [label |-> "Viaje de Marco a la CDMX",
        must_any |-> <<{<<"MARCO", "BONILLA">>}>>,
        any |-> <<KW_LUGARES_CDMX, KW_ACCION_VIAJE>>,
        avoid |-> <<>>],
       [label |-> "Conflictos internos en el PAN",
        must_any |-> <<KW_PAN>>,
        any |-> <<KW_CONFLICTO>>,
        avoid |-> <<>>],
       [label |-> "Cambios en el gabinete del Estado",
        must_any |-> <<KW_GABINETE, KW_MOVIMIENTOS>>,
        any |-> <<KW_ESTADO>>,
        avoid |-> <<>>] >>

\* re.sub(re.escape(medio), " ", txt, flags=re.IGNORECASE): every occurrence
\* of the outlet's name, left to right, is cut out of the text
RECURSIVE quitar_medio(_, _)
quitar_medio(txt, medio) ==
    IF txt = <<>> THEN <<>>
    ELSE IF medio # <<>> /\ Len(medio) <= Len(txt)
            /\ upper(SubSeq(txt, 1, Len(medio))) = upper(medio)
         THEN quitar_medio(SubSeq(txt, Len(medio) + 1, Len(txt)), medio)
    ELSE <<Head(txt)>> \o quitar_medio(Tail(txt), medio)

\* the text of one column: actors, scope and body without URLs, outlet removed
txt_columna(it) ==
    LET cuerpo_sin_urls == SelectSeq(it.cuerpo, LAMBDA a : a \notin URLS)
        cabecera == Aplanar(it.actors) \o it.alcance
    IN  quitar_medio(limpiar(cabecera \o cuerpo_sin_urls), it.medio)

\* cols: one column per col_id, in order of first appearance; a later item
\* with the same col_id replaces the data of the earlier one
\* line 326
dato_col(it, txt) ==
    [cid |-> it.col_id, medio |-> it.medio, txt |-> txt, txt_up |-> _up(txt)]

poner_col(cols, dato) ==
    IF \A i \in DOMAIN cols : cols[i].cid # dato.cid
    THEN Append(cols, dato)
    ELSE [i \in DOMAIN cols |-> IF cols[i].cid = dato.cid THEN dato ELSE cols[i]]

RECURSIVE agrupar_cols(_, _)
agrupar_cols(items, cols) ==
    IF items = <<>> THEN cols
    ELSE agrupar_cols(Tail(items),
                      poner_col(cols, dato_col(Head(items), txt_columna(Head(items)))))

match(txt_up, grupo) == \E w \in grupo : Contiene(txt_up, w)

regla_aplica(regla, txt_up) ==
    /\ \A i \in DOMAIN regla.must_any : match(txt_up, regla.must_any[i])
    /\ \A i \in DOMAIN regla.any : match(txt_up, regla.any[i])
    /\ ~ \E i \in DOMAIN regla.avoid : match(txt_up, regla.avoid[i])

\* tema_cols[label]: the columns a rule matches
tema_cols(cols, k) ==
    {cols[i].cid : i \in {j \in DOMAIN cols : regla_aplica(TOPIC_RULES[k], cols[j].txt_up)}}

tema_medios(cols, k) ==
    {cols[i].medio : i \in {j \in DOMAIN cols : regla_aplica(TOPIC_RULES[k], cols[j].txt_up)}}

\* the labels of tema_cols in insertion order: by first matching column, then
\* by rule
RECURSIVE orden_insercion(_, _, _, _)
orden_insercion(cols, i, k, vistos) ==
    IF i > Len(cols) THEN vistos
    ELSE IF k > Len(TOPIC_RULES) THEN orden_insercion(cols, i + 1, 1, vistos)
    ELSE orden_insercion(cols, i, k + 1,
             IF regla_aplica(TOPIC_RULES[k], cols[i].txt_up) /\ k \notin Elems(vistos)
             THEN Append(vistos, k) ELSE vistos)

\* sorted(..., key=len of the column set, reverse=True): a stable sort
\* the first of ks with the most columns, n[k] being the count of rule k
primero_mayor(ks, n) ==
    CHOOSE j \in DOMAIN ks :
        /\ \A m \in DOMAIN ks : n[ks[m]] <= n[ks[j]]
        /\ \A m \in 1..(j - 1) : n[ks[m]] < n[ks[j]]

sin_indice(ks, i) == SubSeq(ks, 1, i - 1) \o SubSeq(ks, i + 1, Len(ks))

RECURSIVE ordenar_reglas(_, _)
ordenar_reglas(ks, n) ==
    IF ks = <<>> THEN <<>>
    ELSE <<ks[primero_mayor(ks, n)]>>
         \o ordenar_reglas(sin_indice(ks, primero_mayor(ks, n)), n)

\* [:max_temas]
recortar(orden, max_temas) ==
    SubSeq(orden, 1, IF Len(orden) < max_temas THEN Len(orden) ELSE max_temas)

salida_reglas(cols, corte) ==
    [i \in DOMAIN corte |->
        [tema |-> <<TOPIC_RULES[corte[i]].label>>,
         menc |-> Cardinality(tema_cols(cols, corte[i])),
         medios |-> tema_medios(cols, corte[i])]]

\* the output of the rule tier: lines 342-349
temas_por_reglas(cols, max_temas) ==
    salida_reglas(cols,
        recortar(ordenar_reglas(orden_insercion(cols, 1, 1, <<>>),
                                [k \in DOMAIN TOPIC_RULES |->
                                    Cardinality(tema_cols(cols, k))]),
                 max_temas))

\* grams_filtrados of one column, as the set the counting loop iterates over:
\* 3-grams and 2-grams that hold no canonical actor and are no stopword
grams_de(words) == _ngrams(words, 3) \o _ngrams(words, 2)

grams_filtrados(txt) ==
    LET actores_can_sin_acento == { _sin_acentos(a) : a \in ACTORES_CANON_SET }
    IN  { g \in Elems(grams_de(_tokenizar(txt))) :
            /\ ~ \E a \in actores_can_sin_acento : Contiene(_sin_acentos(g), a)
            /\ ~ (Len(g) = 1 /\ sin_acentos_atom(g[1]) \in STOP_ES) }

\* the sort key (count, len) of line 376, compared as Python compares tuples
clave_menor_igual(cnt, g, h) ==
    \/ cnt[g] < cnt[h]
    \/ cnt[g] = cnt[h] /\ largo(g) <= largo(h)

\* The greedy scan of lines 377-385 over top, for every order top can have.
\* sorted() is stable, so n-grams with equal keys keep the order in which the
\* Counter first saw them: by column, and within one column in the iteration
\* order of a Python set of strings, which is not determined.  The result is
\* the set of all the sequences elegidos can be.
\* the n-grams of rest that come first in top: the greatest key, and among
\* those the ones the Counter saw in the earliest column
siguientes(rest, cnt, primero) ==
    LET tops == {g \in rest : \A h \in rest : clave_menor_igual(cnt, h, g)}
    IN  {g \in tops : \A h \in tops : primero[g] <= primero[h]}

\* line 380
salta(base, bases) ==
    \E b \in bases : EmpiezaCon(base, b) \/ EmpiezaCon(b, base)

RECURSIVE elegir(_, _, _, _, _, _)
elegir(rest, bases, elegidos, cnt, primero, max_temas) ==
    IF rest = {} THEN {elegidos}
    ELSE UNION { IF salta(_sin_acentos(g), bases)
                 THEN elegir(rest \ {g}, bases, elegidos, cnt, primero, max_temas)
                 ELSE IF Len(elegidos) + 1 >= max_temas
                 THEN {Append(elegidos, g)}
                 ELSE elegir(rest \ {g}, bases \cup {_sin_acentos(g)},
                             Append(elegidos, g), cnt, primero, max_temas)
               : g \in siguientes(rest, cnt, primero) }

\* cnt[g]: the number of columns whose n-grams hold g (lines 369-370)
contar_grams(G) ==
    [g \in UNION {G[i] : i \in DOMAIN G} |->
        Cardinality({i \in DOMAIN G : g \in G[i]})]

\* the first column whose n-grams hold g
primera_col(G) ==
    [g \in UNION {G[i] : i \in DOMAIN G} |->
        CHOOSE i \in DOMAIN G : g \in G[i] /\ \A j \in 1..(i - 1) : g \notin G[j]]

\* tema_en_medio (line 371)
tema_en_medio(cols, G) ==
    [g \in UNION {G[i] : i \in DOMAIN G} |->
        {cols[i].medio : i \in {j \in DOMAIN G : g \in G[j]}}]

\* lines 387-391
salida_ngramas(e, cnt, medios) ==
    [k \in DOMAIN e |-> [tema |-> e[k], menc |-> cnt[e[k]], medios |-> medios[e[k]]]]

salidas_ngramas(cnt, primero, medios, max_temas) ==
    IF DOMAIN cnt = {} THEN {<<>>}
    ELSE { salida_ngramas(e, cnt, medios) :
           e \in elegir(DOMAIN cnt, {}, <<>>, cnt, primero, max_temas) }

temas_de_grams(cols, G, max_temas) ==
    salidas_ngramas(contar_grams(G), primera_col(G), tema_en_medio(cols, G), max_temas)

\* the frequency tier: lines 351-392
temas_por_ngramas(cols, max_temas) ==
    temas_de_grams(cols, [i \in DOMAIN cols |-> grams_filtrados(cols[i].txt)], max_temas)

\* line 342: the rule tier wins when it has found something
elegir_nivel(reglas, cols, max_temas) ==
    IF reglas # <<>> THEN {reglas} ELSE temas_por_ngramas(cols, max_temas)

temas_de_cols(cols, max_temas) ==
    elegir_nivel(temas_por_reglas(cols, max_temas), cols, max_temas)

\* extraer_temas(items, max_temas): the set of the lists it can return.  A
\* topic is [tema, menc, medios]: the label or n-gram, its count of columns,
\* and the outlets of those columns.
extraer_temas(items, max_temas) == temas_de_cols(agrupar_cols(items, <<>>), max_temas)

MAX_TEMAS == 5

\* generar_resumen(items, titulo), given the list extraer_temas returned: the
\* data of the report text (the ranking of actors is left out)
texto_resumen(items, s, temas) ==
    [vacio |-> FALSE, v |-> s.v, a |-> s.a, r |-> s.r, w |-> s.w,
     total |-> Len(items),
     medios |-> medios_con_publicacion(items),
     temas |-> temas]

generar_resumen(items, temas) ==
    IF items = <<>>
    THEN [vacio |-> TRUE, v |-> 0, a |-> 0, r |-> 0, w |-> 0, total |-> 0,
          medios |-> <<>>, temas |-> <<>>]
    ELSE texto_resumen(items, contar_semaforo(items), temas)

---------------------------------------------------------------------------
(* The clock.  Time is counted in half hours; a day has SLOTS_DIA of them.  *)

SLOTS_DIA == 48
HORA_INICIO_AUTOM == 12
HORA_FIN_AUTOM == 16
HORA_CRON == 17

\* now.replace(hour=0, minute=0, second=0, microsecond=0)
medianoche(t) == t - (t % SLOTS_DIA)

\* The instants the clock visits: 05:30, 06:00, 08:00 and 08:30 of the first
\* day, 06:00 of the second
Instantes == {11, 12, 16, 17, 60}

---------------------------------------------------------------------------
(* Inputs *)

MaxMsgs == 2
MaxIngesta == 3
MaxParse == 1
MaxLote == 2

H_COMPLETO == <<"Columna", "/", "Alcalde", "Bonilla", "/", "Estatal", "/", "El", "Diario">>
H_SIN_ACTOR == <<"Columna", "/", "Omnia">>
H_UN_TOKEN == <<"Columna">>

\* The posts of the full system: a column, a repost of its link under another
\* header and icon, a post with two links, a column without a link, a post
\* without a header, and plain chatter
TextosBase ==
    { << <<"ic_rojo">> \o H_COMPLETO, <<"reforma">>, <<"https://a.mx/n1">> >>,
      << <<"ic_verde">> \o H_SIN_ACTOR, <<"cruce">>, <<"https://a.mx/n1">> >>,
      << <<"ic_alerta">> \o H_SIN_ACTOR, <<"https://a.mx/n1", "https://b.mx/n2">> >>,
      << H_COMPLETO, <<"hoy">>, <<"https://c.mx/n3">> >>,
      << <<"ic_rojo">> \o H_COMPLETO, <<"reforma">> >>,
      << <<"ic_rojo">> \o H_UN_TOKEN, <<"https://b.mx/n2">> >>,
      << H_UN_TOKEN >> }

\* the messages of the ingestion runs: every post in the source chat, and a
\* column posted in another chat
MensajesBase ==
    { <<SOURCE_CHAT_ID, t>> : t \in TextosBase }
    \cup { <<"chat_ajeno", << <<"ic_rojo">> \o H_COMPLETO, <<"https://c.mx/n3">> >> >> }

\* The posts of the runs with reports: two columns that alert, one of them
\* without a header, a repost, and a column that does not alert
TextosSistema ==
    { << <<"ic_rojo">> \o H_COMPLETO, <<"reforma">>, <<"https://a.mx/n1">> >>,
      << <<"ic_verde">> \o H_SIN_ACTOR, <<"https://a.mx/n1">> >>,
      << H_SIN_ACTOR, <<"cruce">>, <<"https://b.mx/n2">> >>,
      << <<"ic_alerta">> \o H_UN_TOKEN, <<"https://c.mx/n3">> >> }

ICONOS == {"ic_verde", "ic_amarillo", "ic_rojo", "ic_alerta", "ic_alerta_sin_vs"}

\* the icons of a set, written one after another
RECURSIVE en_fila(_)
en_fila(S) ==
    IF S = {} THEN <<>>
    ELSE LET x == CHOOSE y \in S : TRUE IN <<x>> \o en_fila(S \ {x})

\* Every combination of icons, in the header, in the body, or split between
\* the two
TextosColor ==
    { << en_fila(S \cap M) \o H_COMPLETO, <<"reforma">> \o en_fila(S \ M),
         <<"https://a.mx/n1">> >> :
      S \in SUBSET ICONOS, M \in {ICONOS, {}, {"ic_verde", "ic_rojo"}} }

Headers ==
    { H_COMPLETO, H_SIN_ACTOR, H_UN_TOKEN,
      <<"Bonilla", "/", "Estatal", "/", "El", "Diario">>,
      <<"Maru", "Campos", "/", "Jua'rez", "/", "Omnia">>,
      <<"Columna", "/", "Estatal", "/", "Omnia">>,
      <<"Columna", "/", "Bonilla", "/", "Cruz", "Pe'rez", "/", "Omnia">>,
      <<"Columna", "/", "Estatal", "/", "Bonilla", "/", "Omnia">>,
      <<"-", "Columna", "/", "Maru", "Campos", "y", "alcalde", "Bonilla", ",",
        "Marco", "Bonilla", "/", "Omnia", "/">>,
      <<"/", "Omnia", "/">>,
      <<"-">>,
      <<"Columna", "https://b.mx/n2">> }

TextosHeader ==
    { << ic \o h >> \o resto :
      ic \in {<<>>, <<"ic_rojo">>},
      h \in Headers,
      resto \in { <<>>, << <<"hoy">>, <<"https://a.mx/n1">> >> } }

TextosParse == TextosColor \cup TextosHeader \cup {<<>>}

H_OMNIA == <<"Columna", "/", "Cruz", "Pe'rez", "/", "Omnia">>

Cuerpos ==
    { <<"reforma", "cruce", "fronterizo">>,
      <<"cruce", "fronterizo", "urgente">>,
      <<"urgente", "reforma">>,
      <<"crisis", "del", "pan">> }

\* columns of two outlets, one per link
TextosTemas ==
    { << IF u = "https://a.mx/n1" THEN H_COMPLETO ELSE H_OMNIA, c, <<u>> >> :
      c \in Cuerpos, u \in {"https://a.mx/n1", "https://b.mx/n2"} }

---------------------------------------------------------------------------
(* State *)

\* all_items: the store (line 45).  alertas: the alerts handed to
\* bot.send_message, in order.  en_vuelo: the col_ids whose alert is awaited
\* (handlers suspended at line 481).  resumen: the last report handed to
\* bot.send_message, with the range and the length of the store at the time of
\* its query.  now: ahora_tz().  n_msgs: the messages handled.  ultimo: the last
\* message handled, with the lengths of all_items and alertas before it, and
\* whether the message before it was the same.
Init ==
    /\ all_items = <<>>
    /\ alertas = <<>>
    /\ en_vuelo = {}
    /\ resumen = <<>>
    /\ now = 11
    /\ n_msgs = 0
    /\ ultimo = <<>>

\* '"/" not in texto' negated: a slash of its own or the slashes of a URL
hay_slash(texto) == "/" \in Elems(expandir(Aplanar(texto)))

\* nuevos_de without the membership test of line 474
nuevos_de_sin_filtro(items, almacen) == items

\* lines 473-474
nuevos_de(items, almacen) ==
    LET existentes == {almacen[i].col_id : i \in DOMAIN almacen}
    IN  SelectSeq(items, LAMBDA it : it.col_id \notin existentes)

\* The handler of every message that is no command.  Nothing is awaited before
\* the alert of line 481, so the membership test and the append are one step;
\* parse_message returns at most one entry, so at most one alert is sent and
\* the handler is suspended at most once, with nothing left to do afterwards.
\* lines 465-472: the entries of a message, none when it comes from another
\* chat or has no slash
items_de(chat, texto) ==
    IF chat # SOURCE_CHAT_ID THEN <<>>
    ELSE IF ~hay_slash(texto) THEN <<>>
    ELSE parse_message(texto, now)

\* lines 477-483: the new entries are appended, then alerted one by one
extender_y_alertar(nuevos, avisos) ==
    /\ all_items' = all_items \o nuevos
    /\ alertas' = alertas \o [i \in DOMAIN avisos |-> armar_alerta(avisos[i])]
    /\ en_vuelo' = en_vuelo \cup {avisos[i].col_id : i \in DOMAIN avisos}

recibir_columnas(chat, texto) ==
    /\ \E nuevos \in {nuevos_de(items_de(chat, texto), all_items)} :
           extender_y_alertar(nuevos, SelectSeq(nuevos, es_alertable))
    /\ ultimo' = << [chat |-> chat, texto |-> texto,
                     antes |-> Len(all_items),
                     alertas_antes |-> Len(alertas),
                     repetido |-> ultimo # <<>> /\ ultimo[1].chat = chat
                                  /\ ultimo[1].texto = texto] >>
    /\ n_msgs' = n_msgs + 1
    /\ UNCHANGED <<resumen, now>>

\* bot.send_message of an alert returns or raises; the exception is logged
\* (lines 482-483) and the handler ends either way
FinEnvioAlerta ==
    /\ \E c \in en_vuelo : en_vuelo' = en_vuelo \ {c}
    /\ UNCHANGED <<all_items, alertas, resumen, now, n_msgs, ultimo>>

\* the report over [start, end], handed to bot.send_message
enviar(cmd, start, end, subset) ==
    \E temas \in extraer_temas(subset, MAX_TEMAS) :
        resumen' = << [cmd |-> cmd, start |-> start, end |-> end,
                       n |-> Len(all_items), subset |-> subset,
                       texto |-> generar_resumen(subset, temas),
                       enviado |-> FALSE] >>

informe(cmd, start, end) ==
    \E subset \in {filtrar_por_rango(all_items, start, end)} :
        enviar(cmd, start, end, subset)

cmd_resumen_hoy ==
    /\ informe("resumen_hoy", medianoche(now), now)
    /\ UNCHANGED <<all_items, alertas, en_vuelo, now, n_msgs, ultimo>>

\* the job the scheduler runs at 08:30 (line 504)
enviar_resumen_autom ==
    /\ now % SLOTS_DIA = HORA_CRON
    /\ informe("autom", medianoche(now) + HORA_INICIO_AUTOM,
               medianoche(now) + HORA_FIN_AUTOM)
    /\ UNCHANGED <<all_items, alertas, en_vuelo, now, n_msgs, ultimo>>

FinEnvioResumen ==
    /\ resumen # <<>>
    /\ ~resumen[1].enviado
    /\ resumen' = << [resumen[1] EXCEPT !.enviado = TRUE] >>
    /\ UNCHANGED <<all_items, alertas, en_vuelo, now, n_msgs, ultimo>>

Tick ==
    /\ \E t \in Instantes : t > now /\ now' = t
    /\ UNCHANGED <<all_items, alertas, en_vuelo, resumen, n_msgs, ultimo>>

Mensaje ==
    /\ n_msgs < MaxMsgs
    /\ \E texto \in TextosSistema : recibir_columnas(SOURCE_CHAT_ID, texto)

MensajeBase ==
    /\ n_msgs < MaxIngesta
    /\ \E m \in MensajesBase : recibir_columnas(m[1], m[2])

MensajeParse ==
    /\ n_msgs < MaxParse
    /\ \E texto \in TextosParse : recibir_columnas(SOURCE_CHAT_ID, texto)

MensajeTemas ==
    /\ n_msgs < MaxLote
    /\ \E texto \in TextosTemas : recibir_columnas(SOURCE_CHAT_ID, texto)

Next ==
    \/ Mensaje
    \/ FinEnvioAlerta
    \/ cmd_resumen_hoy
    \/ enviar_resumen_autom
    \/ FinEnvioResumen
    \/ Tick

Spec == Init /\ [][Next]_vars

NextIngesta == MensajeBase \/ FinEnvioAlerta

SpecIngesta == Init /\ [][NextIngesta]_vars

NextParse == MensajeParse \/ FinEnvioAlerta

SpecParse == Init /\ [][NextParse]_vars

NextTemas == MensajeTemas \/ cmd_resumen_hoy

SpecTemas == Init /\ [][NextTemas]_vars

---------------------------------------------------------------------------
(* Properties *)

\* the last message came from the source chat
DeLaFuente == ultimo # <<>> /\ ultimo[1].chat = SOURCE_CHAT_ID

\* the last message was stored as a new entry, the last of the store
Ingresado == DeLaFuente /\ Len(all_items) = ultimo[1].antes + 1

\* the last message left the store and the alerts as they were
SinEfecto ==
    /\ Len(all_items) = ultimo[1].antes
    /\ Len(alertas) = ultimo[1].alertas_antes

\* the first line of the last message, and its slash-delimited tokens
PrimeraLinea ==
    IF strip_lineas(ultimo[1].texto) = <<>> THEN <<>>
    ELSE Head(strip_lineas(ultimo[1].texto))

TokensUltimo == tokens_header(limpiar(PrimeraLinea))

UrlsUltimo == SelectSeq(Aplanar(ultimo[1].texto), LAMBDA a : a \in URLS)

\* C1: no two entries of the store share a col_id; a post whose last URL is the
\* link of an entry already stored leaves the store as it was, so the entry of
\* the first post is the one that stays.
C1_UnaEntradaPorLink ==
    /\ \A i, j \in DOMAIN all_items :
           i # j => all_items[i].col_id # all_items[j].col_id
    /\ (DeLaFuente /\ UrlsUltimo # <<>>
        /\ \E i \in 1..ultimo[1].antes :
               i <= Len(all_items)
               /\ all_items[i].link = UrlsUltimo[Len(UrlsUltimo)])
       => SinEfecto

\* a repost under another icon and another header is dropped while the alert
\* of the first post is still awaited
C1_Testigo ==
    /\ DeLaFuente /\ UrlsUltimo # <<>>
    /\ Len(all_items) = ultimo[1].antes
    /\ en_vuelo # {}
    /\ \E i \in DOMAIN all_items :
           /\ all_items[i].link = UrlsUltimo[Len(UrlsUltimo)]
           /\ all_items[i].color # detectar_color(ultimo[1].texto)
           /\ all_items[i].medio # parse_header(limpiar(PrimeraLinea)).medio

\* the icons of the last message, the bare warning sign counted as the alert
IconosUltimo ==
    {IF a = "ic_alerta_sin_vs" THEN "ic_alerta" ELSE a :
     a \in atomos(ultimo[1].texto) \cap ICONOS}

\* the first icon of prioridad that is in presentes, neutral when none is
Severidad(presentes, prioridad) ==
    IF presentes = {} THEN "ic_amarillo"
    ELSE prioridad[CHOOSE k \in DOMAIN prioridad :
                       /\ prioridad[k] \in presentes
                       /\ \A m \in 1..(k - 1) : prioridad[m] \notin presentes]

\* C2 as stated: the stored severity is the highest icon present under
\* alert > negative > neutral > positive, neutral when there is none.
C2_Original ==
    Ingresado =>
        all_items[Len(all_items)].color =
            Severidad(IconosUltimo, <<"ic_alerta", "ic_rojo", "ic_amarillo", "ic_verde">>)

\* C2 amended: the stored severity is the highest icon present under
\* negative > alert > positive > neutral, neutral when there is none.
C2_Prioridad ==
    Ingresado =>
        all_items[Len(all_items)].color =
            Severidad(IconosUltimo, <<"ic_rojo", "ic_alerta", "ic_verde", "ic_amarillo">>)

\* a post with the four icons is stored as negative
C2_Testigo ==
    /\ Ingresado
    /\ IconosUltimo = {"ic_verde", "ic_amarillo", "ic_rojo", "ic_alerta"}
    /\ all_items[Len(all_items)].color = "ic_rojo"

\* C3: a post whose first line has fewer than two slash-delimited tokens
\* creates no entry and sends no alert.
C3_SinHeaderNoEntra ==
    (DeLaFuente /\ Len(TokensUltimo) < 2) => SinEfecto

\* C4: every entry has a non-empty list of actors without repetitions.
C4_ActoresNoVacios ==
    \A i \in DOMAIN all_items :
        /\ all_items[i].actors # <<>>
        /\ \A j, k \in DOMAIN all_items[i].actors :
               j # k => all_items[i].actors[j] # all_items[i].actors[k]

\* the alerts attempted for a col_id
AlertasDe(c) == {k \in DOMAIN alertas : alertas[k].col_id = c}

\* C5: an entry of severity negative or alert has exactly one alert attempt,
\* any other entry has none, every attempt is for an entry that is in the
\* store, and this stays so once a report has been made.
C5_UnaAlertaPorEntrada ==
    /\ \A i \in DOMAIN all_items :
           Cardinality(AlertasDe(all_items[i].col_id)) =
               (IF all_items[i].color \in {"ic_rojo", "ic_alerta"} THEN 1 ELSE 0)
    /\ \A k \in DOMAIN alertas :
           \E i \in DOMAIN all_items : all_items[i].col_id = alertas[k].col_id
    /\ \A c \in en_vuelo : AlertasDe(c) # {}

\* a report holds an entry that was alerted once, and the repost of it that came
\* next was dropped without an alert
C5_Testigo ==
    /\ resumen # <<>>
    /\ \E i \in DOMAIN resumen[1].subset :
           /\ resumen[1].subset[i].color = "ic_rojo"
           /\ Cardinality(AlertasDe(resumen[1].subset[i].col_id)) = 1
    /\ n_msgs = 2
    /\ DeLaFuente /\ SinEfecto

\* the last message has a header of two or more tokens and no URL
SinUrlConHeader == DeLaFuente /\ Len(TokensUltimo) >= 2 /\ UrlsUltimo = <<>>

\* C6 as stated: a post with a header and no URL is stored once, however
\* often it is posted.
C6_Original ==
    SinUrlConHeader =>
        Cardinality({i \in DOMAIN all_items :
                        all_items[i].cuerpo =
                            extraer_header_y_cuerpo(ultimo[1].texto).cuerpo
                        /\ all_items[i].link \notin URLS}) = 1

\* C6 amended: a post with a header and no URL is not stored, posted once or
\* twice: the store and the alerts stay as they were and no entry is without
\* a link.
C6_SinUrlNoEntra ==
    /\ SinUrlConHeader => SinEfecto
    /\ \A i \in DOMAIN all_items : all_items[i].link \in URLS

\* the same post without a URL has been handled twice in a row
C6_Testigo ==
    /\ SinUrlConHeader
    /\ ultimo[1].repetido
    /\ SinEfecto

\* the entries of items dated from start to end, both included, in the order
\* of items
EnRango(items, start, end) ==
    LET idx == {i \in DOMAIN items :
                   start <= items[i].fecha /\ items[i].fecha <= end}
    IN  [k \in 1..Cardinality(idx) |->
            items[CHOOSE i \in idx : Cardinality({j \in idx : j < i}) = k - 1]]

Rangos == Instantes \cup {0, SLOTS_DIA}

\* C7: for every range, filtrar_por_rango gives the entries dated from start to
\* end, both included, in insertion order, and none when the range ends before
\* every entry; the entries of a report are those of its range in the store as
\* it was at the query; a step that makes a report leaves the store as it was.
C7_RangoInclusivo ==
    /\ [](/\ \A start, end \in Rangos :
               /\ filtrar_por_rango(all_items, start, end)
                      = EnRango(all_items, start, end)
               /\ (\A i \in DOMAIN all_items : all_items[i].fecha > end)
                      => filtrar_por_rango(all_items, start, end) = <<>>
          /\ resumen # <<>> =>
               /\ resumen[1].n <= Len(all_items)
               /\ resumen[1].subset =
                      EnRango(SubSeq(all_items, 1, resumen[1].n),
                              resumen[1].start, resumen[1].end))
    /\ [][resumen' # resumen => all_items' = all_items]_vars

\* the scheduled report holds an entry dated at the end of its range and leaves
\* out an entry dated after it
C7_Testigo ==
    /\ resumen # <<>>
    /\ resumen[1].cmd = "autom"
    /\ \E i \in DOMAIN resumen[1].subset :
           resumen[1].subset[i].fecha = resumen[1].end
    /\ \E i \in 1..resumen[1].n : all_items[i].fecha > resumen[1].end

\* the col_ids of the entries of a report
IdsResumen == {resumen[1].subset[i].col_id : i \in DOMAIN resumen[1].subset}

\* C8: a report covers the entries of its range that were in the store at its
\* query and no other, none of them twice, and its four counts add up to its
\* total, the number of those entries.
C8_Instantanea ==
    resumen # <<>> =>
        /\ resumen[1].n <= Len(all_items)
        /\ IdsResumen =
               {all_items[i].col_id :
                i \in {j \in 1..resumen[1].n :
                          /\ resumen[1].start <= all_items[j].fecha
                          /\ all_items[j].fecha <= resumen[1].end}}
        /\ Cardinality(IdsResumen) = Len(resumen[1].subset)
        /\ resumen[1].texto.vacio = (resumen[1].subset = <<>>)
        /\ resumen[1].texto.total = Len(resumen[1].subset)
        /\ resumen[1].texto.v + resumen[1].texto.a + resumen[1].texto.r
               + resumen[1].texto.w = resumen[1].texto.total

\* while a report of one entry is still being sent, an entry dated within its
\* range is stored
C8_Testigo ==
    /\ resumen # <<>>
    /\ ~resumen[1].enviado
    /\ resumen[1].texto.total = 1
    /\ resumen[1].n < Len(all_items)
    /\ all_items[Len(all_items)].fecha >= resumen[1].start
    /\ all_items[Len(all_items)].fecha <= resumen[1].end

\* the header of the last message has an actor chunk, a scope and an outlet
HeaderASO ==
    /\ Len(TokensUltimo) = 3
    /\ normalizar_token(TokensUltimo[2]) \in ALCANCE_CATALOG

\* C9 as stated: the header 'A / S / O' gives the actor of A, the scope S and
\* the outlet O.
C9_Original ==
    (Ingresado /\ HeaderASO) =>
        /\ all_items[Len(all_items)].actors = actores_de(<<TokensUltimo[1]>>)
        /\ all_items[Len(all_items)].alcance = normalizar_token(TokensUltimo[2])
        /\ all_items[Len(all_items)].medio = normalizar_token(TokensUltimo[3])

\* the tokens between the first and the last
Medios(tokens) == SubSeq(tokens, 2, Len(tokens) - 1)

ConAlcance(tokens) ==
    /\ Medios(tokens) # <<>>
    /\ normalizar_token(tokens[Len(tokens) - 1]) \in ALCANCE_CATALOG

\* the actor chunks: the tokens other than the first, the last and a
\* second-to-last that is a scope
Chunks(tokens) ==
    IF ConAlcance(tokens) THEN SubSeq(tokens, 2, Len(tokens) - 2)
    ELSE Medios(tokens)

\* C9 amended: the first token of a header is no actor chunk.  The header
\* 'A / S / O' gives the sentinel alone as actors, the scope S and the outlet
\* O; the actors of any header of two or more tokens come from the tokens
\* other than the first, the last and a second-to-last that is a scope.
C9_PrimerTokenFuera ==
    (Ingresado /\ Len(TokensUltimo) >= 2) =>
        /\ all_items[Len(all_items)].medio =
               normalizar_token(TokensUltimo[Len(TokensUltimo)])
        /\ all_items[Len(all_items)].alcance =
               (IF ConAlcance(TokensUltimo)
                THEN normalizar_token(TokensUltimo[Len(TokensUltimo) - 1])
                ELSE <<>>)
        /\ all_items[Len(all_items)].actors =
               (IF actores_de(Chunks(TokensUltimo)) = <<>> THEN <<SIN_ACTORES>>
                ELSE actores_de(Chunks(TokensUltimo)))
        /\ HeaderASO => all_items[Len(all_items)].actors = <<SIN_ACTORES>>

\* a header whose first token names an actor is stored with the sentinel
C9_Testigo ==
    /\ Ingresado /\ HeaderASO
    /\ canon_actor(TokensUltimo[1]) \in ACTORES_CANON_SET
    /\ all_items[Len(all_items)].actors = <<SIN_ACTORES>>
    /\ all_items[Len(all_items)].alcance # <<>>

\* the entries of the last report in which the n-gram g occurs
EntradasCon(g) ==
    {resumen[1].subset[i].col_id :
     i \in {j \in DOMAIN resumen[1].subset :
               Contiene(_tokenizar(txt_columna(resumen[1].subset[j])), g)}}

\* the topics of the last report come from the frequency tier
PorFrecuencia ==
    /\ resumen # <<>>
    /\ resumen[1].subset # <<>>
    /\ temas_por_reglas(agrupar_cols(resumen[1].subset, <<>>), MAX_TEMAS) = <<>>

\* C10 as stated: a topic of the frequency tier occurs in two or more entries.
C10_Original ==
    PorFrecuencia =>
        \A k \in DOMAIN resumen[1].texto.temas :
            Cardinality(EntradasCon(resumen[1].texto.temas[k].tema)) >= 2

\* C10 amended: a topic of the frequency tier is an n-gram of two or three
\* words that occurs in one or more entries, and its count is the number of
\* the entries in which it occurs.
C10_ConteoPorEntrada ==
    PorFrecuencia =>
        \A k \in DOMAIN resumen[1].texto.temas :
            /\ Len(resumen[1].texto.temas[k].tema) \in {2, 3}
            /\ resumen[1].texto.temas[k].menc >= 1
            /\ resumen[1].texto.temas[k].menc =
                   Cardinality(EntradasCon(resumen[1].texto.temas[k].tema))

\* a report has a topic of two entries next to a topic of one entry
C10_Testigo ==
    /\ PorFrecuencia
    /\ \E j, k \in DOMAIN resumen[1].texto.temas :
           /\ resumen[1].texto.temas[j].menc = 2
           /\ resumen[1].texto.temas[k].menc = 1
           /\ Cardinality(EntradasCon(resumen[1].texto.temas[k].tema)) = 1

=============================================================================
